---- MODULE Spec2Model ----
(***************************************************************************)
(* A model of main.py: the CSV validator/repairer validate_and_fix_csv and *)
(* the per-symbol loop of main (fetch, reconcile, save, validate, publish).*)
(*                                                                         *)
(* Text is modelled character by character: a field is a sequence of       *)
(* one-character strings, a row a sequence of fields, a file a sequence of *)
(* rows (what csv.reader yields and csv.writer takes).                     *)
(***************************************************************************)
EXTENDS Integers, Sequences, FiniteSets, TLC

VARIABLES
    \* ---- validate_and_fix_csv called on its own ----
    vpc,        \* "ready" before the call, "returned" after it
    artifact,   \* the rows stored under csv_filename
    before,     \* the rows stored under csv_filename when the call began
    result,     \* what the call returned and why
    \* ---- main ----
    pc,         \* position of main
    si,         \* 0-based index of the current symbol in symbols
    raw,        \* the table yf.download returned in this iteration
    data,       \* the table after reconciliation, as handed to to_csv
    fs,         \* the working directory: file name -> rows, or NoFile
    sha,        \* sha of this iteration's GET
    events      \* log of what main did, oldest first

vars == <<vpc, artifact, before, result, pc, si, raw, data, fs, sha, events>>

vvars == <<vpc, artifact, before, result>>

mvars == <<pc, si, raw, data, fs, sha, events>>

-----------------------------------------------------------------------------
(* Bounds *)

\* longest file handed to validate_and_fix_csv on its own
MaxLines == 4

\* most rows of a fetched table
MaxRows == 2

-----------------------------------------------------------------------------
(* Characters and fields *)

Digits == {"0", "1", "2", "3", "4", "5", "6", "7", "8", "9"}

\* the characters str.strip() removes that occur in the inputs
Whitespace == {" ", "\t"}

RECURSIVE LStrip(_)
LStrip(f) ==
    IF f # <<>> /\ Head(f) \in Whitespace THEN LStrip(Tail(f)) ELSE f

RECURSIVE RStrip(_)
RStrip(f) ==
    IF f # <<>> /\ f[Len(f)] \in Whitespace
    THEN RStrip(SubSeq(f, 1, Len(f) - 1))
    ELSE f

\* col.strip()
Strip(f) == RStrip(LStrip(f))

\* [col.strip() for col in header_row]
normalize_header(header_row) ==
    [i \in 1..Len(header_row) |-> Strip(header_row[i])]

cDate == <<"D", "a", "t", "e">>
cOpen == <<"O", "p", "e", "n">>
cHigh == <<"H", "i", "g", "h">>
cLow == <<"L", "o", "w">>
cClose == <<"C", "l", "o", "s", "e">>
cAdjClose == <<"A", "d", "j", " ", "C", "l", "o", "s", "e">>
cVolume == <<"V", "o", "l", "u", "m", "e">>

expected_header == <<cDate, cOpen, cHigh, cLow, cClose, cAdjClose, cVolume>>

\* date_pattern.match(s) with date_pattern = \d{2}/\d{2}/\d{4}: re.match
\* anchors the pattern at the start of s only, so s may go on after it.
date_pattern_match(s) ==
    /\ Len(s) >= 10
    /\ \A i \in {1, 2, 4, 5, 7, 8, 9, 10} : s[i] \in Digits
    /\ s[3] = "/" /\ s[6] = "/"

-----------------------------------------------------------------------------
(* validate_and_fix_csv *)

\* the loop of lines 45-49, 0-based as in the code, -1 when no row matches
RECURSIVE FindFrom(_, _)
FindFrom(lines, i) ==
    IF i >= Len(lines) THEN -1
    ELSE IF normalize_header(lines[i + 1]) = expected_header THEN i
    ELSE FindFrom(lines, i + 1)

\* FindHeader comparing the rows as they are, untrimmed
FindHeaderExact(lines) ==
    IF \E i \in 1..Len(lines) : lines[i] = expected_header
    THEN (CHOOSE i \in 1..Len(lines) :
            /\ lines[i] = expected_header
            /\ \A j \in 1..(i - 1) : lines[j] # expected_header) - 1
    ELSE -1

\* header_index after lines 45-49
FindHeader(lines) == FindFrom(lines, 0)

\* HasDataRows with the test len(valid_rows) < 1
HasDataRowsAtLeastOne(valid_rows) == Len(valid_rows) >= 1

\* len(valid_rows) < 2 is false (line 62)
HasDataRows(valid_rows) == Len(valid_rows) >= 2

\* RowStep breaking on a wrong field count too
RowStepBreakOnArity(row) ==
    IF row = <<>> THEN "continue"
    ELSE IF date_pattern_match(row[1])
         THEN IF Len(row) = Len(expected_header) THEN "append" ELSE "break"
         ELSE "break"

\* RowStep skipping a row that fails the date test
RowStepNoBreak(row) ==
    IF row = <<>> THEN "continue"
    ELSE IF date_pattern_match(row[1])
         THEN IF Len(row) = Len(expected_header) THEN "append" ELSE "skip"
         ELSE "skip"

\* RowStep without the test of line 72
RowStepNoArity(row) ==
    IF row = <<>> THEN "continue"
    ELSE IF date_pattern_match(row[1]) THEN "append" ELSE "break"

\* the body of the loop of lines 68-78 on one row
RowStep(row) ==
    IF row = <<>> THEN "continue"
    ELSE IF date_pattern_match(row[1])
         THEN IF Len(row) = Len(expected_header) THEN "append" ELSE "skip"
         ELSE "break"

\* the positions of valid_rows (1-based, the header is 1) the loop appends
RECURSIVE ScanFrom(_, _)
ScanFrom(valid_rows, k) ==
    IF k > Len(valid_rows) THEN <<>>
    ELSE LET step == RowStep(valid_rows[k])
         IN  IF step = "break" THEN <<>>
             ELSE IF step = "append"
                  THEN <<k>> \o ScanFrom(valid_rows, k + 1)
                  ELSE ScanFrom(valid_rows, k + 1)

\* what the call computes from the rows it read: the return value, the
\* message it prints (reason), header_index, the positions in lines
\* (0-based) of the rows of valid_data, and valid_data
Validate(lines) ==
    LET header_index == FindHeader(lines)
        valid_rows == SubSeq(lines, header_index + 1, Len(lines))
        keptv == <<1>> \o ScanFrom(valid_rows, 2)
        valid_data == [n \in 1..Len(keptv) |-> valid_rows[keptv[n]]]
        kept == [n \in 1..Len(keptv) |-> header_index + keptv[n] - 1]
    IN  IF header_index = -1
        THEN [ret |-> FALSE, reason |-> "HeaderNotFound", header_index |-> -1,
              kept |-> <<>>, valid_data |-> <<>>]
        ELSE IF ~HasDataRows(valid_rows)
        THEN [ret |-> FALSE, reason |-> "NoDataAfterHeader",
              header_index |-> header_index, kept |-> <<>>, valid_data |-> <<>>]
        ELSE IF Len(valid_data) < 2
        THEN [ret |-> FALSE, reason |-> "NoValidRowsSurvived",
              header_index |-> header_index, kept |-> kept,
              valid_data |-> valid_data]
        ELSE [ret |-> TRUE, reason |-> "Valid", header_index |-> header_index,
              kept |-> kept, valid_data |-> valid_data]

\* StoredAfter with the rewrite done before the checks of lines 51-82
StoredAfterAlwaysRewrite(lines, v) == v.valid_data

\* the rows stored when the call returns without an I/O error
StoredAfter(lines, v) == IF v.ret THEN v.valid_data ELSE lines

\* the call returned False from the except clause (line 92-94)
IOFailure(v) == [v EXCEPT !.ret = FALSE, !.reason = "IOFailure"]

\* what a failed rewrite (lines 85-87) can leave stored: the old rows when
\* open() itself failed, else a prefix of valid_data
PartialWrites(lines, v) ==
    {lines} \cup {SubSeq(v.valid_data, 1, n) : n \in 0..Len(v.valid_data)}

NoResult == [ret |-> FALSE, reason |-> "none", header_index |-> -1,
             kept |-> <<>>, valid_data |-> <<>>]

-----------------------------------------------------------------------------
(* The files validate_and_fix_csv is called on *)

d1 == <<"0", "2", "/", "0", "1", "/", "2", "0", "2", "4">>
d2 == <<"1", "5", "/", "1", "1", "/", "2", "0", "2", "3">>

Hdr == expected_header

\* the header as a formatting tool leaves it, with blanks around fields
HdrWs ==
    <<<<" ">> \o cDate, cOpen \o <<" ">>, cHigh, cLow, cClose,
      <<"\t">> \o cAdjClose \o <<" ">>, cVolume>>

RGood1 == <<d1, <<"1">>, <<"2">>, <<"3">>, <<"4">>, <<"5">>, <<"6">>>>
RGood2 == <<d2, <<"7">>, <<"8">>, <<"9">>, <<"7">>, <<"8">>, <<"9">>>>
\* a date and too few, too many fields
RShort == <<d2, <<"1">>, <<"2">>, <<"3">>, <<"4">>, <<"5">>>>
RLong == <<d1, <<"1">>, <<"2">>, <<"3">>, <<"4">>, <<"5">>, <<"6">>, <<"7">>>>
\* seven fields, the first an ISO date
RBadDate ==
    <<<<"2", "0", "2", "4", "-", "0", "1", "-", "0", "2">>,
      <<"1">>, <<"2">>, <<"3">>, <<"4">>, <<"5">>, <<"6">>>>
\* seven fields, the first a date followed by one more character
RTrail == <<d1 \o <<"x">>, <<"1">>, <<"2">>, <<"3">>, <<"4">>, <<"5">>, <<"6">>>>
\* what csv.reader yields for a blank line
REmpty == <<>>

RowPool ==
    {Hdr, HdrWs, RGood1, RGood2, RShort, RLong, RBadDate, RTrail, REmpty}

Files == UNION {[1..n -> RowPool] : n \in 0..MaxLines}

-----------------------------------------------------------------------------
(* main: symbols, file names *)

symbols == <<<<"Q", "L", "D">>, <<"^", "N", "D", "X">>>>

\* symbol.replace('^', '')
RECURSIVE RemoveCaret(_)
RemoveCaret(s) ==
    IF s = <<>> THEN <<>>
    ELSE IF Head(s) = "^" THEN RemoveCaret(Tail(s))
    ELSE <<Head(s)>> \o RemoveCaret(Tail(s))

\* str.lower() on the letters the symbols are written in
LowerChar(c) ==
    CASE c = "Q" -> "q" [] c = "L" -> "l" [] c = "D" -> "d"
      [] c = "N" -> "n" [] c = "X" -> "x" [] OTHER -> c

Lower(s) == [i \in 1..Len(s) |-> LowerChar(s[i])]

csv_filename(symbol) ==
    Lower(RemoveCaret(symbol))
        \o <<"_", "s", "t", "o", "c", "k", "_", "d", "a", "t", "a",
             ".", "c", "s", "v">>

FileNames == {csv_filename(symbols[i]) : i \in 1..Len(symbols)}

symbol == symbols[si + 1]

-----------------------------------------------------------------------------
(* main: the tables yf.download returns *)

Range(q) == {q[i] : i \in 1..Len(q)}

\* column layouts the provider has used, and layouts that lack a column
Layouts ==
    { <<"Close", "High", "Low", "Open", "Volume">>,
      <<"Price", "Close", "High", "Low", "Open", "Volume">>,
      <<"Open", "Volume", "Price", "Low", "High", "Close">>,
      <<"Open", "High", "Low", "Close", "Adj Close", "Volume">>,
      <<"Adj Close", "Close", "High", "Low", "Open", "Volume">>,
      <<"High", "Low", "Open", "Volume">>,
      <<"Close", "High", "Low", "Open">> }

\* the layouts that also come as a two-level (name, ticker) column index
MultiLayouts ==
    { <<"Close", "High", "Low", "Open", "Volume">>,
      <<"Adj Close", "Close", "High", "Low", "Open", "Volume">> }

\* a trading day and the number the row's values are counted up from
RawRows ==
    { [date |-> [d |-> 2, m |-> 1, y |-> 2024], seed |-> 0],
      [date |-> [d |-> 15, m |-> 11, y |-> 2023], seed |-> 3] }

\* the value of the column at position p differs from column to column
RowVals(r, ncols) == [p \in 1..ncols |-> r.seed + p]

MakeTable(multi, layout, rs) ==
    [multi |-> multi,
     cols |-> IF multi THEN [p \in 1..Len(layout) |-> <<layout[p], "T">>]
              ELSE layout,
     index |-> [n \in 1..Len(rs) |-> rs[n].date],
     vals |-> [n \in 1..Len(rs) |-> RowVals(rs[n], Len(layout))]]

RowSeqs == UNION {[1..n -> RawRows] : n \in 0..MaxRows}

RawTables ==
    {MakeTable(FALSE, l, rs) : l \in Layouts, rs \in RowSeqs}
        \cup {MakeTable(TRUE, l, rs) : l \in MultiLayouts, rs \in RowSeqs}

\* data.empty
Empty(t) == t.index = <<>> \/ t.cols = <<>>

-----------------------------------------------------------------------------
(* main: reconciliation (lines 123-143) and to_csv (line 151) *)

\* data.columns = data.columns.get_level_values(0) under the isinstance test
Flatten(t) ==
    IF t.multi
    THEN [t EXCEPT !.multi = FALSE,
                   !.cols = [p \in 1..Len(t.cols) |-> t.cols[p][1]]]
    ELSE t

DigitChar(n) ==
    CASE n = 0 -> "0" [] n = 1 -> "1" [] n = 2 -> "2" [] n = 3 -> "3"
      [] n = 4 -> "4" [] n = 5 -> "5" [] n = 6 -> "6" [] n = 7 -> "7"
      [] n = 8 -> "8" [] n = 9 -> "9"

\* the decimal text of a natural number
RECURSIVE NumText(_)
NumText(n) ==
    IF n < 10 THEN <<DigitChar(n)>>
    ELSE NumText(n \div 10) \o <<DigitChar(n % 10)>>

TwoDigits(n) == <<DigitChar((n \div 10) % 10), DigitChar(n % 10)>>

\* strftime('%d/%m/%Y') of a date with a four-digit year
strftime(date) ==
    TwoDigits(date.d) \o <<"/">> \o TwoDigits(date.m) \o <<"/">>
        \o TwoDigits(date.y \div 100) \o TwoDigits(date.y % 100)

\* data.index = data.index.strftime('%d/%m/%Y')
FormatIndex(t) ==
    [t EXCEPT !.index = [n \in 1..Len(t.index) |-> strftime(t.index[n])]]

\* the subsequence of q at the positions that satisfy keep
RECURSIVE SelectPos(_, _, _)
SelectPos(q, keep, p) ==
    IF p > Len(q) THEN <<>>
    ELSE (IF keep[p] THEN <<q[p]>> ELSE <<>>) \o SelectPos(q, keep, p + 1)

\* data.drop(columns='Price', inplace=True) under the "in" test
DropPrice(t) ==
    IF "Price" \in Range(t.cols)
    THEN LET keep == [p \in 1..Len(t.cols) |-> t.cols[p] # "Price"]
         IN  [t EXCEPT !.cols = SelectPos(t.cols, keep, 1),
                       !.vals = [n \in 1..Len(t.vals) |->
                                    SelectPos(t.vals[n], keep, 1)]]
    ELSE t

\* position of the column called name
ColPos(t, name) == CHOOSE p \in 1..Len(t.cols) : t.cols[p] = name

\* data['Close'] raises KeyError
AdjCloseRaises(t) ==
    "Adj Close" \notin Range(t.cols) /\ "Close" \notin Range(t.cols)

\* AddAdjClose copying the column Open
AddAdjCloseFromOpen(t) ==
    IF "Adj Close" \notin Range(t.cols)
    THEN [t EXCEPT !.cols = t.cols \o <<"Adj Close">>,
                   !.vals = [n \in 1..Len(t.vals) |->
                               t.vals[n] \o <<t.vals[n][ColPos(t, "Open")]>>]]
    ELSE t

\* data['Adj Close'] = data['Close'] under the "not in" test
AddAdjClose(t) ==
    IF "Adj Close" \notin Range(t.cols)
    THEN [t EXCEPT !.cols = t.cols \o <<"Adj Close">>,
                   !.vals = [n \in 1..Len(t.vals) |->
                               t.vals[n] \o <<t.vals[n][ColPos(t, "Close")]>>]]
    ELSE t

expected_cols == <<"Open", "High", "Low", "Close", "Adj Close", "Volume">>

\* data[expected_cols] raises KeyError
ReorderRaises(t) == ~(Range(expected_cols) \subseteq Range(t.cols))

\* data = data[expected_cols]
Reorder(t) ==
    [t EXCEPT !.cols = expected_cols,
              !.vals = [n \in 1..Len(t.vals) |->
                          [p \in 1..Len(expected_cols) |->
                              t.vals[n][ColPos(t, expected_cols[p])]]]]

\* lines 124-139
BeforeReorder(t) == AddAdjClose(DropPrice(FormatIndex(Flatten(t))))

\* a KeyError is raised between line 124 and line 143
ReconcileRaises(t) ==
    IF AdjCloseRaises(DropPrice(FormatIndex(Flatten(t))))
    THEN TRUE
    ELSE ReorderRaises(BeforeReorder(t))

\* lines 124-143
Reconcile(t) == Reorder(BeforeReorder(t))

ColText(name) ==
    CASE name = "Open" -> cOpen [] name = "High" -> cHigh
      [] name = "Low" -> cLow [] name = "Close" -> cClose
      [] name = "Adj Close" -> cAdjClose [] name = "Volume" -> cVolume

\* the rows data.to_csv(csv_filename, index=True, index_label='Date') writes
to_csv(t) ==
    << <<cDate>> \o [p \in 1..Len(t.cols) |-> ColText(t.cols[p])] >>
        \o [n \in 1..Len(t.index) |->
                <<t.index[n]>>
                    \o [p \in 1..Len(t.cols) |-> NumText(t.vals[n][p])]]

-----------------------------------------------------------------------------
(* main: values shared with the validator's own specification *)

NoFile == <<<<<<"no file">>>>>>

NoTable == [multi |-> FALSE, cols |-> <<>>, index |-> <<>>, vals |-> <<>>]

MainOff ==
    /\ pc = "off"
    /\ si = 0
    /\ raw = NoTable
    /\ data = NoTable
    /\ fs = [f \in FileNames |-> NoFile]
    /\ sha = "unset"
    /\ events = <<>>

-----------------------------------------------------------------------------
(* validate_and_fix_csv called on a stored file *)

InitV ==
    /\ vpc = "ready"
    /\ artifact \in Files
    /\ before = artifact
    /\ result = NoResult
    /\ MainOff

\* the call runs to line 90 or to one of the returns of lines 53, 64, 82
ValidateReturns ==
    /\ vpc = "ready"
    /\ LET v == Validate(artifact)
       IN  /\ result' = v
           /\ artifact' = StoredAfter(artifact, v)
    /\ before' = artifact
    /\ vpc' = "returned"
    /\ UNCHANGED mvars

\* open() or the read of lines 35-37 raises
ValidateReadFails ==
    /\ vpc = "ready"
    /\ result' = IOFailure(NoResult)
    /\ before' = artifact
    /\ vpc' = "returned"
    /\ UNCHANGED <<artifact, mvars>>

\* open() or the write of lines 85-87 raises
ValidateWriteFails ==
    /\ vpc = "ready"
    /\ LET v == Validate(artifact)
       IN  /\ v.ret
           /\ result' = IOFailure(v)
           /\ artifact' \in PartialWrites(artifact, v)
    /\ before' = artifact
    /\ vpc' = "returned"
    /\ UNCHANGED mvars

NextV ==
    \/ ValidateReturns
    \/ ValidateReadFails
    \/ ValidateWriteFails

SpecV == InitV /\ [][NextV]_vars

-----------------------------------------------------------------------------
(* main *)

VOff ==
    /\ vpc = "off"
    /\ artifact = <<>>
    /\ before = <<>>
    /\ result = NoResult

Init ==
    /\ pc = "start"
    /\ si = 0
    /\ raw = NoTable
    /\ data = NoTable
    /\ fs = [f \in FileNames |-> NoFile]
    /\ sha = "unset"
    /\ events = <<>>
    /\ VOff

Log(ev) == events' = Append(events, [sym |-> symbol, ev |-> ev])

\* os.getenv('TOKEN') is empty: ValueError leaves main (line 101)
TokenMissing ==
    /\ pc = "start"
    /\ pc' = "no token"
    /\ UNCHANGED <<si, raw, data, fs, sha, events, vvars>>

TokenLoaded ==
    /\ pc = "start"
    /\ pc' = "loop"
    /\ UNCHANGED <<si, raw, data, fs, sha, events, vvars>>

\* the for loop of line 114 has run out of symbols
LoopExit ==
    /\ pc = "loop"
    /\ si = Len(symbols)
    /\ pc' = "done"
    /\ UNCHANGED <<si, raw, data, fs, sha, events, vvars>>

\* the iteration is over (continue, or the end of the loop body): the next
\* symbol is taken; raw, data and sha are not read again before they are
\* assigned again
NextSymbol ==
    /\ pc' = "loop"
    /\ si' = si + 1
    /\ raw' = NoTable
    /\ data' = NoTable
    /\ sha' = "unset"

\* an exception is raised inside the try block of lines 115-196
Raise(kind) ==
    /\ pc' = "except"
    /\ events' = events \o <<[sym |-> symbol, ev |-> kind]>>

\* ExceptHandler re-raising: the exception leaves main
ExceptHandlerPropagates == "raised"

\* where control goes from the except clause of lines 198-199
ExceptHandler == "loop"

\* the except clause of lines 198-199
Except ==
    /\ pc = "except"
    /\ IF ExceptHandler = "loop"
       THEN NextSymbol
       ELSE pc' = ExceptHandler /\ UNCHANGED <<si, raw, data, sha>>
    /\ UNCHANGED <<fs, events, vvars>>

InLoop == pc = "loop" /\ si < Len(symbols)

\* yf.download raises (line 118)
FetchRaises ==
    /\ InLoop
    /\ events' = events \o <<[sym |-> symbol, ev |-> "fetch"],
                             [sym |-> symbol, ev |-> "FetchError"]>>
    /\ pc' = "except"
    /\ UNCHANGED <<si, raw, data, fs, sha, vvars>>

\* yf.download returns no rows: continue (lines 119-121)
FetchEmpty ==
    /\ InLoop
    /\ \E t \in RawTables :
        /\ Empty(t)
        /\ Log("fetch")
        /\ NextSymbol
    /\ UNCHANGED <<fs, vvars>>

\* a required column is missing: KeyError at line 139 or 143
ReconcileFails ==
    /\ InLoop
    /\ \E t \in RawTables :
        /\ ~Empty(t)
        /\ ReconcileRaises(t)
        /\ raw' = t
        /\ events' = events \o <<[sym |-> symbol, ev |-> "fetch"],
                                 [sym |-> symbol, ev |-> "KeyError"]>>
    /\ pc' = "except"
    /\ UNCHANGED <<si, data, fs, sha, vvars>>

\* to_csv cannot open the file (line 151)
SaveFails ==
    /\ InLoop
    /\ \E t \in RawTables :
        /\ ~Empty(t)
        /\ ~ReconcileRaises(t)
        /\ raw' = t
        /\ data' = Reconcile(t)
        /\ events' = events \o <<[sym |-> symbol, ev |-> "fetch"],
                                 [sym |-> symbol, ev |-> "SaveError"]>>
    /\ pc' = "except"
    /\ UNCHANGED <<si, fs, sha, vvars>>

\* lines 118-152: fetched, reconciled and saved
Saved ==
    /\ InLoop
    /\ \E t \in RawTables :
        /\ ~Empty(t)
        /\ ~ReconcileRaises(t)
        /\ raw' = t
        /\ data' = Reconcile(t)
        /\ fs' = [fs EXCEPT ![csv_filename(symbol)] = to_csv(Reconcile(t))]
        /\ Log("fetch")
    /\ pc' = "validate"
    /\ UNCHANGED <<si, sha, vvars>>

\* AfterValidate without the test of line 155
AfterValidateIgnoresResult(ok) == "get"

\* where main goes on the value validate_and_fix_csv returned (155-157)
AfterValidate(ok) == IF ok THEN "get" ELSE "continue"

\* what main does with the stored rows `stored` and the returned value
ValidatedWith(stored, ok) ==
    /\ fs' = [fs EXCEPT ![csv_filename(symbol)] = stored]
    /\ Log(IF ok THEN "valid" ELSE "rejected")
    /\ IF AfterValidate(ok) = "get"
       THEN pc' = "get" /\ UNCHANGED <<si, raw, data, sha>>
       ELSE NextSymbol
    /\ UNCHANGED vvars

\* line 155, the call returning from line 53, 64, 82 or 90
MainValidateReturns ==
    /\ pc = "validate"
    /\ LET lines == fs[csv_filename(symbol)]
           v == Validate(lines)
       IN  ValidatedWith(StoredAfter(lines, v), v.ret)

\* line 155, the call returning False from line 94 after a failed read
MainValidateReadFails ==
    /\ pc = "validate"
    /\ ValidatedWith(fs[csv_filename(symbol)], FALSE)

\* line 155, the call returning False from line 94 after a failed write
MainValidateWriteFails ==
    /\ pc = "validate"
    /\ LET lines == fs[csv_filename(symbol)]
           v == Validate(lines)
       IN  /\ v.ret
           /\ \E stored \in PartialWrites(lines, v) :
                  ValidatedWith(stored, FALSE)

\* lines 162-173: the GET answers
GetResponds ==
    /\ pc = "get"
    /\ \E status \in {200, 404, 500} :
        /\ Log("get")
        /\ IF status = 200
           THEN pc' = "put" /\ sha' = "sha" /\ UNCHANGED <<si, raw, data>>
           ELSE IF status = 404
           THEN pc' = "put" /\ sha' = "None" /\ UNCHANGED <<si, raw, data>>
           ELSE NextSymbol
    /\ UNCHANGED <<fs, vvars>>

\* requests.get or response.json() raises (lines 162-163)
GetRaises ==
    /\ pc = "get"
    /\ events' = events \o <<[sym |-> symbol, ev |-> "get"],
                             [sym |-> symbol, ev |-> "GetError"]>>
    /\ pc' = "except"
    /\ UNCHANGED <<si, raw, data, fs, sha, vvars>>

\* the file cannot be read back (lines 176-177)
ReadBackRaises ==
    /\ pc = "put"
    /\ Raise("ReadError")
    /\ UNCHANGED <<si, raw, data, fs, sha, vvars>>

\* lines 176-196: the PUT answers, and the answer is printed
PutResponds ==
    /\ pc = "put"
    /\ \E status \in {200, 201, 422} :
        Log(IF status \in {200, 201} THEN "put" ELSE "put failed")
    /\ NextSymbol
    /\ UNCHANGED <<fs, vvars>>

\* requests.put raises, or response.json() at line 196 does
PutRaises ==
    /\ pc = "put"
    /\ events' = events \o <<[sym |-> symbol, ev |-> "put failed"],
                             [sym |-> symbol, ev |-> "PutError"]>>
    /\ pc' = "except"
    /\ UNCHANGED <<si, raw, data, fs, sha, vvars>>

Next ==
    \/ TokenMissing
    \/ TokenLoaded
    \/ LoopExit
    \/ FetchRaises
    \/ FetchEmpty
    \/ ReconcileFails
    \/ SaveFails
    \/ Saved
    \/ MainValidateReturns
    \/ MainValidateReadFails
    \/ MainValidateWriteFails
    \/ GetResponds
    \/ GetRaises
    \/ ReadBackRaises
    \/ PutResponds
    \/ PutRaises
    \/ Except

Spec == Init /\ [][Next]_vars

-----------------------------------------------------------------------------
(* Vocabulary of the properties of validate_and_fix_csv.  Positions are    *)
(* 0-based positions in the file as it was when the call began.            *)

Returned == vpc = "returned"

\* the call went through its checks (no exception was raised)
Decided == Returned /\ result.reason # "IOFailure"

IsHeaderRow(row) == normalize_header(row) = expected_header

\* positions of the rows of `before` that are header rows
HeaderPositions == {i \in 0..(Len(before) - 1) : IsHeaderRow(before[i + 1])}

FirstHeader == CHOOSE i \in HeaderPositions : \A j \in HeaderPositions : i <= j

\* two digits, slash, two digits, slash, four digits, and nothing else
DateShaped(s) ==
    /\ Len(s) = 10
    /\ \A i \in {1, 2, 4, 5, 7, 8, 9, 10} : s[i] \in Digits
    /\ s[3] = "/" /\ s[6] = "/"

\* field 0 begins with two digits, slash, two digits, slash, four digits
BeginsWithDate(row) ==
    /\ Len(row) >= 1
    /\ Len(row[1]) >= 10
    /\ DateShaped(SubSeq(row[1], 1, 10))

WellFormed(row) == Len(row) = 7 /\ DateShaped(row[1])

\* non-empty rows after the first header whose field 0 does not begin with
\* a date: the rows the validator's date test rejects
StopPositions ==
    {k \in (FirstHeader + 1)..(Len(before) - 1) :
        before[k + 1] # <<>> /\ ~BeginsWithDate(before[k + 1])}

\* the position of the first of them, Len(before) when there is none
FirstStop ==
    IF StopPositions = {} THEN Len(before)
    ELSE CHOOSE k \in StopPositions : \A j \in StopPositions : k <= j

KeptSet == {result.kept[n] : n \in 1..Len(result.kept)}

\* the stored rows are the rows of `before` at the kept positions, in order
StoredIsKept ==
    artifact = [n \in 1..Len(result.kept) |-> before[result.kept[n] + 1]]

Increasing(q) == \A m, n \in 1..Len(q) : m < n => q[m] < q[n]

C3_PerRowSkip ==
    (Decided /\ HeaderPositions # {} /\ Len(before) > FirstHeader + 1) =>
        /\ \A k \in (FirstHeader + 1)..(FirstStop - 1) :
              LET row == before[k + 1]
              IN  /\ (BeginsWithDate(row) /\ Len(row) # 7) => k \notin KeptSet
                  /\ (BeginsWithDate(row) /\ Len(row) = 7) => k \in KeptSet
        /\ Increasing(result.kept)
        /\ result.reason = "Valid" => StoredIsKept
        /\ ( /\ Len(before) = 4
             /\ IsHeaderRow(before[1])
             /\ WellFormed(before[2])
             /\ BeginsWithDate(before[3]) /\ Len(before[3]) # 7
             /\ WellFormed(before[4]) )
           => ( /\ result.reason = "Valid"
                /\ artifact = <<before[1], before[2], before[4]>> )

C3_Witness ==
    /\ Decided
    /\ Len(before) = 4
    /\ IsHeaderRow(before[1])
    /\ WellFormed(before[2])
    /\ BeginsWithDate(before[3]) /\ Len(before[3]) # 7
    /\ WellFormed(before[4])
    /\ result.reason = "Valid"
    /\ artifact = <<before[1], before[2], before[4]>>

(* C4, as amended: header skip.  If some row of the file is, after         *)
(* trimming each field, the canonical header, the call never returns       *)
(* HeaderNotFound; and with i the position of the FIRST such row, a Valid  *)
(* call stores only rows that stood at position i or later: the header     *)
(* found at i, then rows from after it, and nothing from before i.         *)
C4_HeaderSkipFirst ==
    (Returned /\ HeaderPositions # {}) =>
        /\ result.reason # "HeaderNotFound"
        /\ Decided => result.header_index = FirstHeader
        /\ result.reason = "Valid" =>
              /\ StoredIsKept
              /\ result.kept[1] = FirstHeader
              /\ \A k \in KeptSet : k >= FirstHeader

C4_Witness ==
    /\ Returned
    /\ result.reason = "Valid"
    /\ FirstHeader = 2
    /\ ~IsHeaderRow(before[1]) /\ before[1] # <<>>
    /\ before[3] # expected_header
    /\ Len(artifact) = 2
    /\ artifact[1] = before[3]

(* C4, as stated: for EVERY position i holding a header row, the call      *)
(* never returns HeaderNotFound and a Valid call stores nothing that stood *)
(* before i.                                                               *)
C4_HeaderSkipAnyIndex ==
    Returned =>
        \A i \in HeaderPositions :
            /\ result.reason # "HeaderNotFound"
            /\ result.reason = "Valid" => \A k \in KeptSet : k >= i

(* C6, as amended: whenever the call returns Valid, every stored data row  *)
(* has exactly 7 fields and its field 0 BEGINS WITH two digits, slash, two *)
(* digits, slash, four digits (characters may follow the date).            *)
C6_RowsBeginWithDate ==
    (Returned /\ result.reason = "Valid") =>
        \A n \in 2..Len(artifact) :
            Len(artifact[n]) = 7 /\ BeginsWithDate(artifact[n])

C6_Witness ==
    /\ Returned
    /\ result.reason = "Valid"
    /\ Len(before) = 4
    /\ Len(artifact) = 2
    /\ \E k \in 2..4 : BeginsWithDate(before[k]) /\ Len(before[k]) # 7
    /\ \E k \in 2..4 : before[k] # <<>> /\ ~BeginsWithDate(before[k])

(* C6, as stated: whenever the call returns Valid, every stored data row   *)
(* has exactly 7 fields and its field 0 is dd/mm/yyyy: two digits, slash,  *)
(* two digits, slash, four digits.                                         *)
C6_CanonicalRow ==
    (Returned /\ result.reason = "Valid") =>
        \A n \in 2..Len(artifact) :
            Len(artifact[n]) = 7 /\ DateShaped(artifact[n][1])

(* C7: whenever the call returns Valid, the stored file has at least one   *)
(* data row, its first row equals the canonical header tuple, and no later *)
(* row is a header, whatever blanks the header of the input carried and    *)
(* however often the header was repeated.                                  *)
C7_CanonicalTable ==
    (Returned /\ result.reason = "Valid") =>
        /\ Len(artifact) >= 2
        /\ artifact[1] = expected_header
        /\ \A n \in 2..Len(artifact) : ~IsHeaderRow(artifact[n])

(* C8: when the header is found and no row follows it, the call returns    *)
(* NoDataAfterHeader; when rows follow it, the call returns                *)
(* NoValidRowsSurvived exactly if none of them survives the scan.          *)
C8_EmptyAfterHeader ==
    (Decided /\ HeaderPositions # {}) =>
        /\ (Len(before) = FirstHeader + 1) <=>
              (result.reason = "NoDataAfterHeader")
        /\ (Len(before) > FirstHeader + 1) =>
              /\ result.reason \in {"Valid", "NoValidRowsSurvived"}
              /\ (result.reason = "NoValidRowsSurvived") <=>
                    (\A k \in (FirstHeader + 1)..(FirstStop - 1) :
                        ~(BeginsWithDate(before[k + 1])
                          /\ Len(before[k + 1]) = 7))

C8_Witness ==
    /\ Decided
    /\ HeaderPositions # {}
    /\ FirstHeader = 2
    /\ Len(before) = 3
    /\ result.reason = "NoDataAfterHeader"

(* C10: a call that returns HeaderNotFound, NoDataAfterHeader or           *)
(* NoValidRowsSurvived leaves the stored file as it was; the file is       *)
(* touched only by calls whose three rejection checks have passed.         *)
C10_RejectionLeavesArtifact ==
    Returned =>
        /\ (result.reason \in
              {"HeaderNotFound", "NoDataAfterHeader", "NoValidRowsSurvived"})
           => artifact = before
        /\ artifact # before =>
              /\ result.reason \in {"Valid", "IOFailure"}
              /\ Len(result.valid_data) >= 2

C10_Witness ==
    /\ Returned
    /\ result.reason = "NoValidRowsSurvived"
    /\ Len(before) = 4
    /\ FirstHeader = 1
    /\ artifact = before

-----------------------------------------------------------------------------
(* Properties of main *)

EventsOf(sym) == {k \in 1..Len(events) : events[k].sym = sym}

\* the events at which the Publisher is invoked (the GET, the PUT)
IsPublish(e) == e.ev \in {"get", "put", "put failed"}

(* C1: the Publisher is invoked for a symbol (GET for the sha, PUT of the  *)
(* file) only after validate_and_fix_csv returned True for that symbol's   *)
(* file earlier in the same iteration, and never after it returned False.  *)
C1_NoPublishAfterRejection ==
    \A k \in 1..Len(events) :
        IsPublish(events[k]) =>
            /\ \E j \in 1..(k - 1) :
                  events[j] = [sym |-> events[k].sym, ev |-> "valid"]
            /\ \A j \in 1..Len(events) :
                  events[j] # [sym |-> events[k].sym, ev |-> "rejected"]
            /\ pc \in {"get", "put"} /\ events[k].sym = symbol
                  => Validate(fs[csv_filename(symbol)]).ret

C1_Witness ==
    /\ pc = "done"
    /\ \E j \in 1..Len(events) :
          events[j] = [sym |-> symbols[1], ev |-> "rejected"]
    /\ \A k \in EventsOf(symbols[1]) : ~IsPublish(events[k])
    /\ \E k \in EventsOf(symbols[2]) : events[k].ev = "put"

\* the symbols whose iteration began, in the order they began
RECURSIVE StartedIn(_)
StartedIn(evs) ==
    IF evs = <<>> THEN <<>>
    ELSE (IF Head(evs).ev = "fetch" THEN <<Head(evs).sym>> ELSE <<>>)
            \o StartedIn(Tail(evs))

\* how far main has come: the iterations begun, then the place in the body
Progress ==
    CASE pc = "start" -> 0
      [] pc = "no token" -> 1
      [] pc = "loop" -> 1 + 5 * si
      [] pc = "validate" -> 2 + 5 * si
      [] pc = "get" -> 3 + 5 * si
      [] pc = "put" -> 4 + 5 * si
      [] pc = "except" -> 5 + 5 * si
      [] pc = "done" -> 2 + 5 * Len(symbols)
      [] OTHER -> 0

InsideLoop == pc \in {"loop", "validate", "get", "put", "except"}

(* C5: a failure in one symbol's iteration never aborts the run, and every *)
(* symbol is processed in list order whatever happened to the symbols      *)
(* before it.  Once the loop is entered main is either in the loop, with   *)
(* the symbols before the current one begun in list order and a step to    *)
(* take, or past the loop with all symbols begun in list order; no         *)
(* exception leaves the loop; and every step takes main further, so that   *)
(* the end of the loop is reached.  (The steps named under ENABLED are     *)
(* steps of Next.)                                                         *)
C5_FailureContainment ==
    /\ [](pc \in {"start", "no token", "done"} \/ InsideLoop)
    /\ [](InsideLoop =>
            /\ \/ ENABLED LoopExit \/ ENABLED FetchRaises
               \/ ENABLED MainValidateReadFails \/ ENABLED GetRaises
               \/ ENABLED PutRaises \/ ENABLED Except
            /\ si <= Len(symbols)
            /\ StartedIn(events) =
                  SubSeq(symbols, 1, IF pc = "loop" THEN si ELSE si + 1))
    /\ [](pc = "done" => StartedIn(events) = symbols)
    /\ [][Progress' > Progress]_vars

C5_Witness ==
    /\ pc = "done"
    /\ StartedIn(events) = symbols
    /\ \E k \in EventsOf(symbols[1]) : events[k].ev = "KeyError"
    /\ \E k \in EventsOf(symbols[2]) : events[k].ev = "put"

\* the fetched table, with a two-level column index flattened
RawFlat == Flatten(raw)

RawHas(name) == name \in Range(RawFlat.cols)

\* the value the fetched table holds in row n under column name
RawVal(n, name) == RawFlat.vals[n][ColPos(RawFlat, name)]

\* the fetched table lacks Adj Close and has the five other value columns
LacksOnlyAdjClose ==
    /\ raw # NoTable
    /\ ~Empty(raw)
    /\ ~RawHas("Adj Close")
    /\ \A c \in {"Open", "High", "Low", "Close", "Volume"} : RawHas(c)

(* C9: a fetched, non-empty table that lacks Adj Close and has Open, High, *)
(* Low, Close and Volume (with or without a Price column, in any order) is *)
(* reconciled without error to the columns Open, High, Low, Close,         *)
(* Adj Close, Volume in that order, without Price, every row keeping its   *)
(* values and carrying in Adj Close the value of Close; and the saved file *)
(* shows the same text under Adj Close and Close in every row.             *)
C9_MissingAdjCloseFallback ==
    LacksOnlyAdjClose =>
        /\ ~(pc = "except" /\ events[Len(events)].ev = "KeyError")
        /\ data # NoTable =>
            /\ data.cols = <<"Open", "High", "Low", "Close", "Adj Close",
                             "Volume">>
            /\ Len(data.vals) = Len(raw.vals)
            /\ \A n \in 1..Len(data.vals) :
                /\ Len(data.vals[n]) = 6
                /\ data.vals[n][5] = data.vals[n][4]
                /\ data.vals[n][1] = RawVal(n, "Open")
                /\ data.vals[n][2] = RawVal(n, "High")
                /\ data.vals[n][3] = RawVal(n, "Low")
                /\ data.vals[n][4] = RawVal(n, "Close")
                /\ data.vals[n][6] = RawVal(n, "Volume")
                /\ data.index[n] = strftime(raw.index[n])
        /\ pc = "validate" =>
            LET file == fs[csv_filename(symbol)]
            IN  /\ Len(file) = Len(raw.vals) + 1
                /\ file[1] = expected_header
                /\ \A n \in 2..Len(file) :
                      Len(file[n]) = 7 /\ file[n][6] = file[n][5]

C9_Witness ==
    /\ LacksOnlyAdjClose
    /\ pc = "validate"
    /\ RawHas("Price")
    /\ Len(data.vals) = 2
    /\ data.vals[1] # data.vals[2]
    /\ data.vals[1][5] = data.vals[1][4]
    /\ data.vals[1][1] # data.vals[1][4]

====
